---- MODULE Spec2Model ----
(***************************************************************************)
(* Model of the Voara customer-service agent backend:                      *)
(*   - agent/tools.py      : search_knowledge_base function tool and the   *)
(*                           shared rag_context.json file                  *)
(*   - agent/main.py       : voara_agent session handler (context reset)   *)
(*   - agent/voice_agent.py: VoaraAgent.retrieve_context                   *)
(*   - api/routes/rag.py   : /rag/query, /rag/stats, /rag/context          *)
(*   - api/main.py         : lifespan                                      *)
(* The rag package (Retriever, QdrantService) is not part of the sources;  *)
(* its operations are modelled from the specification and the tests.       *)
(***************************************************************************)
EXTENDS Integers, Sequences, FiniteSets, TLC

\* ---------------------------------------------------------------- bounds
MaxCalls == 2
MaxSessions == 2
MaxAgentCalls == 3
MaxPoints == 2
MaxVec == 1
MaxClients == 2
MaxCloses == 3
MaxUpserts == 2
MaxEvents == 2

Calls == 1..MaxCalls
Sessions == 1..MaxSessions

\* Queries the model LLM may pass to the tool, and contexts a retriever may
\* return ("" is the empty context of a retrieval with no matches).
Queries == {"q1", "q2"}
Contexts == {"", "c1"}

VARIABLES
    tools_retriever,    \* tools.py _retriever: "None" or "Retriever"
    last_rag_context,   \* tools.py _last_rag_context
    context_file,       \* rag_context.json: [state, data]
    clock,              \* source of datetime.now()
    call,               \* search_knowledge_base invocations, by slot
    session_pc,         \* voara_agent handlers, by session
    context_response,   \* last response of GET /rag/context
    h_last,             \* history: most recent completed search with a result
    h_stored,           \* history: a search of session s has stored a result
    tools_constructs    \* history: Retriever() constructions of _get_retriever

VARIABLES
    enable_rag,         \* VoaraAgent.enable_rag
    agent_retriever,    \* VoaraAgent._retriever: "None" or "Retriever"
    last_context,       \* VoaraAgent._last_context
    last_query,         \* VoaraAgent._last_query
    agent_constructs,   \* number of Retriever() constructions attempted
    acall,              \* VoaraAgent.retrieve_context invocations, by slot
    last_owner          \* history: the invocation that last set the pair

VARIABLES
    settings,           \* get_rag_settings(): [top_k, score_threshold]
    collection,         \* the Qdrant collection: [exists, points]
    qdrant_client,      \* QdrantService._client: 0 (None) or a client id
    clients_made,       \* clients created so far
    client_closes,      \* close() calls received by each client
    client_upserts,     \* upsert calls received by the backing clients
    close_calls,        \* QdrantService.close() calls made
    upsert_call,        \* the last upsert_vectors call: [n, batch, ret, repeat]
    stats_response,     \* last response of GET /rag/stats
    query_pc,           \* position of the POST /rag/query handler
    query_req,          \* its request
    query_calls,        \* retrieval calls it has made: <<[op, top_k]>>
    query_found,        \* what its retrieval calls returned
    query_response      \* its response

VARIABLES
    lifespan,           \* api/main.py lifespan: [pc, check, service, closed]
    etask,              \* tasks spawned by on_user_input_transcribed
    handler             \* voara_agent after the context reset: [pc, ...]

toolVars == <<tools_retriever, last_rag_context, context_file, clock, call,
              session_pc, context_response, h_last, h_stored, tools_constructs>>
agentVars == <<enable_rag, agent_retriever, last_context, last_query,
               agent_constructs, acall, last_owner>>
storeVars == <<settings, collection, qdrant_client, clients_made, client_closes,
               client_upserts, close_calls, upsert_call>>
statsVars == <<stats_response>>
queryVars == <<query_pc, query_req, query_calls, query_found, query_response>>
lifespanVars == <<lifespan>>
eventVars == <<etask>>
handlerVars == <<handler>>
vars == <<toolVars, agentVars, storeVars, statsVars, queryVars,
          lifespanVars, eventVars, handlerVars>>
\* What the steps of one component leave alone.
notTools == <<agentVars, storeVars, statsVars, queryVars,
              lifespanVars, eventVars, handlerVars>>
notAgent == <<toolVars, storeVars, statsVars, queryVars,
              lifespanVars, eventVars, handlerVars>>
notStore == <<toolVars, agentVars, statsVars, queryVars,
              lifespanVars, eventVars, handlerVars>>
notStats == <<toolVars, agentVars, queryVars,
              lifespanVars, eventVars, handlerVars>>
notQuery == <<toolVars, agentVars, statsVars,
              lifespanVars, eventVars, handlerVars>>
notLifespan == <<toolVars, agentVars, statsVars, queryVars,
                 eventVars, handlerVars>>
notEvents == <<toolVars, storeVars, statsVars, queryVars,
               lifespanVars, handlerVars>>
notHandler == <<toolVars, agentVars, storeVars, statsVars, queryVars,
                lifespanVars, eventVars>>

\* ------------------------------------------------------- tools.py values
NullTimestamp == 0

EmptyRecord == [query |-> "", context |-> "", timestamp |-> NullTimestamp]

FallbackUnavailable ==
    "I apologize, but I'm unable to access the knowledge base at the moment. Please try again."
FallbackNoInfo ==
    "No specific information found in the knowledge base for this query."
FallbackIssue ==
    "I encountered an issue searching the knowledge base. Let me try to help you with what I know."
NoInfoContext == "No specific information found."

Fallbacks == {FallbackUnavailable, FallbackNoInfo, FallbackIssue}

IdleCall == [pc |-> "idle", query |-> "", session |-> 0, kind |-> "none",
             result |-> "", stamp |-> NullTimestamp, write |-> "none", ret |-> "",
             raised |-> FALSE]

ToolGetRetriever_NoMemo(current, constructOk) ==
    IF constructOk THEN "Retriever" ELSE "None"

\* _get_retriever: construct on first use; a failed construction is logged
\* and leaves the global None.
ToolGetRetriever(current, constructOk) ==
    IF current = "None"
    THEN (IF constructOk THEN "Retriever" ELSE "None")
    ELSE current

\* The record search_knowledge_base builds for a non-empty result.
ResultRecord(q, result, now) ==
    [query |-> q, context |-> result, timestamp |-> now]

\* The record search_knowledge_base builds for an empty result.
NoInfoRecord(q, now) ==
    [query |-> q, context |-> NoInfoContext, timestamp |-> now]

\* Return paths of search_knowledge_base, as updates of the invocation.
OnRetrieverUnavailable(cr) ==
    [cr EXCEPT !.pc = "done", !.kind = "unavailable", !.ret = FallbackUnavailable]

OnRetrieveRaised(cr) ==
    [cr EXCEPT !.pc = "done", !.kind = "raise", !.ret = FallbackIssue]

OnEmptyResult_NoBranch(cr, now) ==
    [cr EXCEPT !.pc = "done", !.kind = "ok", !.result = "", !.stamp = now,
               !.ret = FallbackIssue]

OnEmptyResult(cr, now) ==
    [cr EXCEPT !.pc = "done", !.kind = "ok", !.result = "", !.stamp = now,
               !.ret = FallbackNoInfo]

OnWriteFailed_NoInnerTry(cr) ==
    [cr EXCEPT !.pc = "done", !.write = "failed", !.ret = FallbackIssue]

\* The inner try/except logs a failed write and falls through to return result.
OnWriteFailed(cr) ==
    [cr EXCEPT !.pc = "done", !.write = "failed", !.ret = cr.result]

OnWriteDone(cr) ==
    [cr EXCEPT !.pc = "done", !.write = "ok", !.ret = cr.result]

\* open(context_file, "w") truncates the file.
Truncated(file) == [state |-> "truncated", data |-> file.data]
Written(rec) == [state |-> "ok", data |-> rec]

\* --------------------------------------------------- rag.py /rag/context
EmptyResponse(err) ==
    [query |-> "", context |-> "", timestamp |-> NullTimestamp,
     has_context |-> FALSE, error |-> err]

GetCurrentContext_KeyPresence(file, readOk) ==
    IF file.state = "absent" THEN EmptyResponse(FALSE)
    ELSE IF ~readOk \/ file.state = "truncated" THEN EmptyResponse(TRUE)
    ELSE [query |-> file.data.query,
          context |-> file.data.context,
          timestamp |-> file.data.timestamp,
          has_context |-> TRUE,
          error |-> FALSE]

\* get_current_context: a missing file gives the empty response; a file that
\* cannot be opened or parsed gives the empty response with an error text.
GetCurrentContext(file, readOk) ==
    IF file.state = "absent" THEN EmptyResponse(FALSE)
    ELSE IF ~readOk \/ file.state = "truncated" THEN EmptyResponse(TRUE)
    ELSE [query |-> file.data.query,
          context |-> file.data.context,
          timestamp |-> file.data.timestamp,
          has_context |-> (file.data.context # ""),
          error |-> FALSE]

\* ------------------------------------------------------------------ Init
OldRecord == [query |-> "q1", context |-> "c1", timestamp |-> NullTimestamp]

NoFile == [state |-> "absent", data |-> EmptyRecord]

\* The context file outlives the processes: at start it may be missing, hold
\* the cleared record or hold the record of an earlier run.
InitTools(files) ==
    /\ tools_retriever = "None"
    /\ last_rag_context = EmptyRecord
    /\ context_file \in files
    /\ clock = 1
    /\ call = [c \in Calls |-> IdleCall]
    /\ session_pc = [s \in Sessions |-> "idle"]
    /\ context_response = EmptyResponse(FALSE)
    /\ h_last = [valid |-> FALSE, query |-> "", context |-> ""]
    /\ h_stored = [s \in Sessions |-> FALSE]
    /\ tools_constructs = [attempts |-> 0, built |-> 0]

\* --------------------------------------------- search_knowledge_base steps
\* Entry up to the await of retriever.retrieve_context.
SearchBegin(c, q, s, constructOk) ==
    /\ UNCHANGED notTools
    /\ call[c].pc = "idle"
    /\ (IF c = 1 THEN TRUE ELSE call[c - 1].pc # "idle")
    /\ session_pc[s] = "active"
    /\ LET r == ToolGetRetriever(tools_retriever, constructOk)
           cr == [call[c] EXCEPT !.query = q, !.session = s]
       IN /\ tools_retriever' = r
          /\ call' = [call EXCEPT ![c] =
                        IF r = "None" THEN OnRetrieverUnavailable(cr)
                        ELSE [cr EXCEPT !.pc = "retrieving"]]
    /\ tools_constructs' =
          [attempts |-> tools_constructs.attempts
                          + (IF tools_retriever = "None" THEN 1 ELSE 0),
           built |-> tools_constructs.built
                          + (IF tools_retriever = "None" /\ tools_retriever' # "None"
                             THEN 1 ELSE 0)]
    /\ h_last' = [valid |-> FALSE, query |-> "", context |-> ""]
    /\ UNCHANGED <<last_rag_context, context_file, clock, session_pc,
                   context_response, h_stored>>

SearchRetrieveRaises_Records(c) ==
    /\ UNCHANGED notTools
    /\ call[c].pc = "retrieving"
    /\ call' = [call EXCEPT ![c] = OnRetrieveRaised(call[c])]
    /\ last_rag_context' = NoInfoRecord(call[c].query, clock)
    /\ UNCHANGED <<tools_retriever, context_file, clock,
                   session_pc, context_response, h_last, h_stored, tools_constructs>>

\* retriever.retrieve_context raised: the outer except returns the fallback.
SearchRetrieveRaises(c) ==
    /\ UNCHANGED notTools
    /\ call[c].pc = "retrieving"
    /\ call' = [call EXCEPT ![c] = OnRetrieveRaised(call[c])]
    /\ UNCHANGED <<tools_retriever, last_rag_context, context_file, clock,
                   session_pc, context_response, h_last, h_stored, tools_constructs>>

\* retriever.retrieve_context returned "": only the in-process record is set.
SearchRetrieveEmpty(c) ==
    /\ UNCHANGED notTools
    /\ call[c].pc = "retrieving"
    /\ last_rag_context' = NoInfoRecord(call[c].query, clock)
    /\ clock' = clock + 1
    /\ call' = [call EXCEPT ![c] = OnEmptyResult(call[c], clock)]
    /\ h_last' = [valid |-> TRUE, query |-> call[c].query, context |-> NoInfoContext]
    /\ UNCHANGED <<tools_retriever, context_file, session_pc,
                   context_response, h_stored, tools_constructs>>

\* retriever.retrieve_context returned a non-empty result: the in-process
\* record is set and the context file is opened for writing.
SearchRetrieveResult(c, result, openOk) ==
    /\ UNCHANGED notTools
    /\ call[c].pc = "retrieving"
    /\ result # ""
    /\ last_rag_context' = ResultRecord(call[c].query, result, clock)
    /\ clock' = clock + 1
    /\ LET cr == [call[c] EXCEPT !.kind = "ok", !.result = result, !.stamp = clock]
       IN IF openOk
          THEN /\ context_file' = Truncated(context_file)
               /\ call' = [call EXCEPT ![c] = [cr EXCEPT !.pc = "writing"]]
               /\ h_stored' = [h_stored EXCEPT ![call[c].session] = TRUE]
               /\ h_last' = h_last
          ELSE /\ context_file' = context_file
               /\ call' = [call EXCEPT ![c] = OnWriteFailed(cr)]
               /\ h_stored' = h_stored
               /\ h_last' = [valid |-> TRUE, query |-> cr.query, context |-> result]
    /\ UNCHANGED <<tools_retriever, session_pc, context_response, tools_constructs>>

\* json.dump into the opened file, then close.
SearchWriteFinish(c, dumpOk) ==
    /\ UNCHANGED notTools
    /\ call[c].pc = "writing"
    /\ IF dumpOk
       THEN /\ context_file' =
                  Written(ResultRecord(call[c].query, call[c].result, call[c].stamp))
            /\ call' = [call EXCEPT ![c] = OnWriteDone(call[c])]
       ELSE /\ context_file' = context_file
            /\ call' = [call EXCEPT ![c] = OnWriteFailed(call[c])]
    /\ h_last' = [valid |-> TRUE, query |-> call[c].query, context |-> call[c].result]
    /\ UNCHANGED <<tools_retriever, last_rag_context, clock, session_pc,
                   context_response, h_stored, tools_constructs>>

\* ------------------------------------------------ voara_agent (main.py)
\* Start of the handler: if the context file exists it is opened for writing.
SessionStart(s, openOk) ==
    /\ UNCHANGED notTools
    /\ session_pc[s] = "idle"
    /\ (IF s = 1 THEN TRUE ELSE session_pc[s - 1] # "idle")
    /\ IF context_file.state # "absent" /\ openOk
       THEN /\ context_file' = Truncated(context_file)
            /\ session_pc' = [session_pc EXCEPT ![s] = "clearing"]
       ELSE /\ context_file' = context_file
            /\ session_pc' = [session_pc EXCEPT ![s] = "active"]
    /\ h_last' = [valid |-> FALSE, query |-> "", context |-> ""]
    /\ UNCHANGED <<tools_retriever, last_rag_context, clock, call,
                   context_response, h_stored, tools_constructs>>

\* json.dump of the empty record; a failure is logged and the handler goes on.
SessionClearFinish(s, dumpOk) ==
    /\ UNCHANGED notTools
    /\ session_pc[s] = "clearing"
    /\ context_file' = IF dumpOk THEN Written(EmptyRecord) ELSE context_file
    /\ session_pc' = [session_pc EXCEPT ![s] = "active"]
    /\ UNCHANGED <<tools_retriever, last_rag_context, clock, call,
                   context_response, h_last, h_stored, tools_constructs>>

\* The session's close event: the handler returns.
SessionClose(s) ==
    /\ UNCHANGED notTools
    /\ session_pc[s] = "active"
    /\ session_pc' = [session_pc EXCEPT ![s] = "closed"]
    /\ UNCHANGED <<tools_retriever, last_rag_context, context_file, clock, call,
                   context_response, h_last, h_stored, tools_constructs>>

\* ------------------------------------------------------ GET /rag/context
ApiGetContext(readOk) ==
    /\ UNCHANGED notTools
    /\ context_response' = GetCurrentContext(context_file, readOk)
    /\ UNCHANGED <<tools_retriever, last_rag_context, context_file, clock, call,
                   session_pc, h_last, h_stored, tools_constructs>>

SearchStep(CS, SS) ==
    \/ \E c \in CS, q \in Queries, s \in SS, ok \in BOOLEAN :
          SearchBegin(c, q, s, ok)
    \/ \E c \in CS : SearchRetrieveRaises(c)
    \/ \E c \in CS : SearchRetrieveEmpty(c)
    \/ \E c \in CS, r \in Contexts \ {""}, ok \in BOOLEAN :
          SearchRetrieveResult(c, r, ok)
    \/ \E c \in CS, ok \in BOOLEAN : SearchWriteFinish(c, ok)

SessionStep(SS) ==
    \/ \E s \in SS, ok \in BOOLEAN : SessionStart(s, ok)
    \/ \E s \in SS, ok \in BOOLEAN : SessionClearFinish(s, ok)
    \/ \E s \in SS : SessionClose(s)

ToolsStep(CS, SS) ==
    \/ SearchStep(CS, SS)
    \/ SessionStep(SS)
    \/ \E ok \in BOOLEAN : ApiGetContext(ok)

\* ------------------------------------------ VoaraAgent (voice_agent.py)
AgentCalls == 1..MaxAgentCalls

\* Contexts a retrieval of the agent may return.
AgentContexts == Contexts \cup {"c2"}

IdleAgentCall == [pc |-> "idle", query |-> "", kind |-> "none", result |-> "",
                  touched |-> FALSE, ret |-> "", raised |-> FALSE]

\* enable_rag comes from the settings.
InitAgent(enabled) ==
    /\ enable_rag \in enabled
    /\ agent_retriever = "None"
    /\ last_context = ""
    /\ last_query = ""
    /\ agent_constructs = 0
    /\ acall = [a \in AgentCalls |-> IdleAgentCall]
    /\ last_owner = 0

AgentGetRetriever_KeepsEnabled(current, enabled, constructOk) ==
    IF current = "None" /\ enabled
    THEN IF constructOk
         THEN [retriever |-> "Retriever", enabled |-> enabled, constructed |-> 1]
         ELSE [retriever |-> "None", enabled |-> enabled, constructed |-> 1]
    ELSE [retriever |-> current, enabled |-> enabled, constructed |-> 0]

\* VoaraAgent._get_retriever: constructs only while no retriever exists and
\* RAG is enabled; a failed construction disables RAG.
AgentGetRetriever(current, enabled, constructOk) ==
    IF current = "None" /\ enabled
    THEN IF constructOk
         THEN [retriever |-> "Retriever", enabled |-> enabled, constructed |-> 1]
         ELSE [retriever |-> "None", enabled |-> FALSE, constructed |-> 1]
    ELSE [retriever |-> current, enabled |-> enabled, constructed |-> 0]

\* Return paths of VoaraAgent.retrieve_context, as updates of the invocation.
OnRagDisabled(ar) ==
    [ar EXCEPT !.pc = "done", !.kind = "disabled", !.ret = ""]

OnNoRetriever(ar) ==
    [ar EXCEPT !.pc = "done", !.kind = "noretriever", !.touched = TRUE, !.ret = ""]

OnAgentRetrieveRaised_NoExcept(ar) ==
    [ar EXCEPT !.pc = "done", !.kind = "raise", !.raised = TRUE]

OnAgentRetrieveRaised(ar) ==
    [ar EXCEPT !.pc = "done", !.kind = "raise", !.ret = ""]

OnAgentRetrieved(ar, context) ==
    [ar EXCEPT !.pc = "done", !.kind = "ok", !.result = context, !.ret = context]

\* "if context:" stores the context and then the query, with no await
\* between the two assignments.
RememberContext(pair, q, context, a) ==
    IF context # ""
    THEN [context |-> context, query |-> q, owner |-> a]
    ELSE pair

\* retrieve_context from its entry up to the await of
\* retriever.retrieve_context.
RetrieveContextCall(a, q, constructOk) ==
    /\ acall[a].pc = "idle"
    /\ (IF a = 1 THEN TRUE ELSE acall[a - 1].pc # "idle")
    /\ LET ar == [acall[a] EXCEPT !.query = q]
           g == AgentGetRetriever(agent_retriever, enable_rag, constructOk)
       IN IF ~enable_rag
          THEN /\ acall' = [acall EXCEPT ![a] = OnRagDisabled(ar)]
               /\ UNCHANGED <<enable_rag, agent_retriever, agent_constructs>>
          ELSE /\ agent_retriever' = g.retriever
               /\ enable_rag' = g.enabled
               /\ agent_constructs' = agent_constructs + g.constructed
               /\ acall' = [acall EXCEPT ![a] =
                              IF g.retriever = "None" THEN OnNoRetriever(ar)
                              ELSE [ar EXCEPT !.pc = "awaiting", !.touched = TRUE]]
    /\ UNCHANGED <<last_context, last_query, last_owner>>

\* A retrieve_context call made directly on the agent.
RetrieveContextBegin(a, q, constructOk) ==
    /\ UNCHANGED notAgent
    /\ RetrieveContextCall(a, q, constructOk)

\* retriever.retrieve_context raised: logged, "" returned.
RetrieveContextRaises(a) ==
    /\ UNCHANGED notAgent
    /\ acall[a].pc = "awaiting"
    /\ acall' = [acall EXCEPT ![a] = OnAgentRetrieveRaised(acall[a])]
    /\ UNCHANGED <<enable_rag, agent_retriever, last_context, last_query,
                   agent_constructs, last_owner>>

\* retriever.retrieve_context returned: a non-empty context is remembered.
RetrieveContextReturns(a, context) ==
    /\ UNCHANGED notAgent
    /\ acall[a].pc = "awaiting"
    /\ LET pair == RememberContext([context |-> last_context, query |-> last_query,
                                     owner |-> last_owner],
                                    acall[a].query, context, a)
       IN /\ last_context' = pair.context
          /\ last_query' = pair.query
          /\ last_owner' = pair.owner
    /\ acall' = [acall EXCEPT ![a] = OnAgentRetrieved(acall[a], context)]
    /\ UNCHANGED <<enable_rag, agent_retriever, agent_constructs>>

AgentStep(AS) ==
    \/ \E a \in AS, q \in Queries, ok \in BOOLEAN : RetrieveContextBegin(a, q, ok)
    \/ \E a \in AS : RetrieveContextRaises(a)
    \/ \E a \in AS, r \in AgentContexts : RetrieveContextReturns(a, r)

\* ------------------------------------- vector store (rag.qdrant_service)
PointIds == 1..MaxPoints
Vectors == 0..MaxVec
Clients == 1..MaxClients

\* What a stored point carries besides its id: its vector and its payload.
PointValues ==
    {[vec |-> v, text |-> "t1", source |-> "a.md"] : v \in Vectors}
    \cup {[vec |-> MaxVec, text |-> "t2", source |-> "b.md"],
          [vec |-> MaxVec, text |-> "t1", source |-> "b.md"]}

Point(id, val) ==
    [id |-> id, vec |-> val.vec, text |-> val.text, source |-> val.source]

IdPairs == {ij \in PointIds \X PointIds : ij[1] < ij[2]}

\* upsert_vectors(ids, vectors, payloads): one point, or two points of
\* different ids.
Batches ==
    {<<Point(i, val)>> : i \in PointIds, val \in PointValues}
    \cup {<<Point(ij[1], val), Point(ij[2], val)>> :
            ij \in IdPairs, val \in PointValues}

IdsOf(points) == {points[k].id : k \in DOMAIN points}

NoCollection == [exists |-> FALSE, points |-> <<>>]

\* Every content of the collection: points of distinct ids, in write order.
Collections ==
    {NoCollection}
    \cup {[exists |-> TRUE, points |-> ps] :
            ps \in {<<>>} \cup {<<Point(i, val)>> : i \in PointIds, val \in PointValues}
                   \cup {<<Point(ij[1], val), Point(ij[2], wal)>> :
                           ij \in IdPairs, val \in PointValues, wal \in PointValues}
                   \cup {<<Point(ij[2], val), Point(ij[1], wal)>> :
                           ij \in IdPairs, val \in PointValues, wal \in PointValues}}

DistinctIds(points) == Cardinality(IdsOf(points)) = Len(points)

UpsertPoints_Append(points, batch) == points \o batch

\* upsert: points whose id is in the batch are replaced, the others kept.
UpsertPoints(points, batch) ==
    SelectSeq(points, LAMBDA p : p.id \notin IdsOf(batch)) \o batch

\* The lazily created client: created on first use after construction or close.
EnsureClient(client, made) ==
    IF client # 0 THEN [client |-> client, made |-> made]
    ELSE [client |-> made + 1, made |-> made + 1]

CanUseClient == qdrant_client # 0 \/ clients_made < MaxClients

CloseService_KeepsClient(client, closes) ==
    IF client # 0
    THEN [client |-> client, closes |-> [closes EXCEPT ![client] = @ + 1]]
    ELSE [client |-> client, closes |-> closes]

\* close(): closes the client if there is one and forgets it.
CloseService(client, closes) ==
    IF client # 0
    THEN [client |-> 0, closes |-> [closes EXCEPT ![client] = @ + 1]]
    ELSE [client |-> client, closes |-> closes]

\* get_collection_info(): absent (None) when the collection does not exist.
GetCollectionInfo(coll) ==
    IF coll.exists
    THEN [present |-> TRUE, points_count |-> Len(coll.points), status |-> "green"]
    ELSE [present |-> FALSE, points_count |-> 0, status |-> ""]

NoUpsert == [n |-> 0, batch |-> <<>>, ret |-> FALSE, repeat |-> FALSE]

DefaultSettings == [top_k |-> 3, score_threshold |-> 1]

InitStore(collections, configs) ==
    /\ settings \in configs
    /\ collection \in collections
    /\ qdrant_client = 0
    /\ clients_made = 0
    /\ client_closes = [c \in Clients |-> 0]
    /\ client_upserts = 0
    /\ close_calls = 0
    /\ upsert_call = NoUpsert

\* create_collection(): creates the collection when it does not exist.
QdrantCreateCollection ==
    /\ UNCHANGED notStore
    /\ CanUseClient
    /\ ~collection.exists
    /\ LET e == EnsureClient(qdrant_client, clients_made)
       IN qdrant_client' = e.client /\ clients_made' = e.made
    /\ collection' = [exists |-> TRUE, points |-> <<>>]
    /\ UNCHANGED <<settings, client_closes, client_upserts, close_calls, upsert_call>>

\* upsert_vectors(): one write to the client; a backend error (or a missing
\* collection) fails the whole batch.
QdrantUpsert(batch, ok) ==
    /\ UNCHANGED notStore
    /\ CanUseClient
    /\ upsert_call.n < MaxUpserts
    /\ LET e == EnsureClient(qdrant_client, clients_made)
       IN qdrant_client' = e.client /\ clients_made' = e.made
    /\ client_upserts' = client_upserts + 1
    /\ IF ok /\ collection.exists
       THEN /\ collection' =
                  [collection EXCEPT !.points = UpsertPoints(collection.points, batch)]
            /\ upsert_call' = [n |-> upsert_call.n + 1, batch |-> batch, ret |-> TRUE,
                               repeat |-> (upsert_call.ret /\ upsert_call.batch = batch)]
       ELSE /\ collection' = collection
            /\ upsert_call' = [n |-> upsert_call.n + 1, batch |-> batch, ret |-> FALSE,
                               repeat |-> FALSE]
    /\ UNCHANGED <<settings, client_closes, close_calls>>

\* close()
QdrantClose ==
    /\ UNCHANGED notStore
    /\ close_calls < MaxCloses
    /\ close_calls' = close_calls + 1
    /\ LET r == CloseService(qdrant_client, client_closes)
       IN qdrant_client' = r.client /\ client_closes' = r.closes
    /\ UNCHANGED <<settings, collection, clients_made, client_upserts, upsert_call>>

\* ------------------------------------------------- rag.py GET /rag/stats
NoStats == [http |-> 0, seen |-> "none", seen_count |-> 0,
            exists |-> FALSE, points_count |-> 0, status |-> ""]

StatsCollection_AlwaysExists(info) ==
    [exists |-> TRUE,
     points_count |-> IF info.present THEN info.points_count ELSE 0,
     status |-> IF info.present THEN info.status ELSE "not_found"]

\* The "collection" object of the stats response.
StatsCollection(info) ==
    [exists |-> info.present,
     points_count |-> IF info.present THEN info.points_count ELSE 0,
     status |-> IF info.present THEN info.status ELSE "not_found"]

InitStats == stats_response = NoStats

\* get_rag_stats: get_collection_info returned (ok) or raised.
ApiGetRagStats(ok) ==
    /\ UNCHANGED notStats
    /\ CanUseClient
    /\ LET e == EnsureClient(qdrant_client, clients_made)
       IN qdrant_client' = e.client /\ clients_made' = e.made
    /\ LET info == GetCollectionInfo(collection)
           body == StatsCollection(info)
       IN stats_response' =
            IF ok
            THEN [http |-> 200,
                  seen |-> IF info.present THEN "present" ELSE "absent",
                  seen_count |-> info.points_count,
                  exists |-> body.exists, points_count |-> body.points_count,
                  status |-> body.status]
            ELSE [NoStats EXCEPT !.http = 500, !.seen = "error"]
    /\ UNCHANGED <<settings, collection, client_closes, client_upserts,
                   close_calls, upsert_call>>

\* ---------------------------------------------- retriever (rag.retriever)
Abs(x) == IF x < 0 THEN -x ELSE x

\* Similarity of a query vector and a stored vector, higher is better.
Similarity(u, v) == MaxVec - Abs(u - v)

Min(a, b) == IF a < b THEN a ELSE b

Scored(points, qvec) ==
    [k \in DOMAIN points |->
        [text |-> points[k].text, score |-> Similarity(qvec, points[k].vec),
         source |-> points[k].source, header |-> ""]]

\* Place r in a sequence sorted by descending score, after every result
\* whose score is at least r's.
InsertByScore(r, sorted) ==
    LET k == Cardinality({i \in DOMAIN sorted : sorted[i].score >= r.score})
    IN SubSeq(sorted, 1, k) \o <<r>> \o SubSeq(sorted, k + 1, Len(sorted))

RECURSIVE SortByScore(_)
SortByScore(rs) ==
    IF rs = <<>> THEN <<>> ELSE InsertByScore(Head(rs), SortByScore(Tail(rs)))

\* search: the matches that meet the threshold, best first, at most top_k.
StoreSearch(points, qvec, top_k, threshold) ==
    LET passing == SelectSeq(Scored(points, qvec), LAMBDA r : r.score >= threshold)
        sorted == SortByScore(passing)
    IN SubSeq(sorted, 1, Min(top_k, Len(sorted)))

\* Drop a result whose text, or whose source and header, an earlier (higher
\* scoring) result already has.
RECURSIVE Dedup(_, _)
Dedup(rs, kept) ==
    IF rs = <<>> THEN kept
    ELSE LET r == Head(rs)
             dup == \E k \in DOMAIN kept :
                       \/ kept[k].text = r.text
                       \/ (kept[k].source = r.source /\ kept[k].header = r.header)
         IN Dedup(Tail(rs), IF dup THEN kept ELSE Append(kept, r))

NoTopK == -1

\* retrieve(query, top_k=None): the retriever's own top_k when none is given.
EffectiveTopK(arg, own) == IF arg = NoTopK THEN own ELSE arg

\* Retriever.retrieve: a missing collection gives no results.
Retrieve(coll, qvec, top_k, threshold) ==
    IF ~coll.exists THEN <<>>
    ELSE Dedup(StoreSearch(coll.points, qvec, top_k, threshold), <<>>)

\* The context string, as the sequence of the texts it joins.
FormatContext(rs) == [k \in DOMAIN rs |-> rs[k].text]

SourcesOf(rs) == [k \in DOMAIN rs |-> rs[k].source]

\* ------------------------------------------------ rag.py POST /rag/query
MinQueryLen == 1
MaxQueryLen == 1000
MinTopK == 1
MaxTopK == 10

\* A query text, as its length and its embedding.
ApiQueries ==
    {[len |-> 0, vec |-> 0], [len |-> MinQueryLen, vec |-> 0],
     [len |-> MaxQueryLen, vec |-> MaxVec], [len |-> MaxQueryLen + 1, vec |-> MaxVec]}

TopKInputs == {NoTopK, 0, 1, 2, MaxTopK, MaxTopK + 1}

Settings == {[top_k |-> k, score_threshold |-> t] : k \in {1, 3}, t \in Vectors}

ValidRequest_NoLowerBound(query, top_k) ==
    /\ query.len >= MinQueryLen /\ query.len <= MaxQueryLen
    /\ top_k = NoTopK \/ top_k <= MaxTopK

\* RAGQueryRequest: the Field constraints pydantic enforces.
ValidRequest(query, top_k) ==
    /\ query.len >= MinQueryLen /\ query.len <= MaxQueryLen
    /\ top_k = NoTopK \/ (top_k >= MinTopK /\ top_k <= MaxTopK)

\* Python's "request.top_k or settings.top_k": None and 0 are falsy.
TopKOr(top_k, default) == IF top_k = NoTopK \/ top_k = 0 THEN default ELSE top_k

ToRagResults_Reversed(rs) ==
    [k \in DOMAIN rs |->
        [text |-> rs[Len(rs) + 1 - k].text, score |-> rs[Len(rs) + 1 - k].score,
         header |-> rs[Len(rs) + 1 - k].header, source |-> rs[Len(rs) + 1 - k].source]]

\* The results list of the response: one RAGResult per result, in order.
ToRagResults(rs) ==
    [k \in DOMAIN rs |->
        [text |-> rs[k].text, score |-> rs[k].score,
         header |-> rs[k].header, source |-> rs[k].source]]

NoQuery == [len |-> 0, vec |-> 0]
NoRequest == [query |-> NoQuery, top_k |-> NoTopK, retriever_top_k |-> 0]
NoFound == [sourced |-> <<>>, context |-> <<>>, sources |-> <<>>, results |-> <<>>]
NoResponse == [status |-> 0, results |-> <<>>, context |-> <<>>]

InitQuery ==
    /\ query_pc = "idle"
    /\ query_req = NoRequest
    /\ query_calls = <<>>
    /\ query_found = NoFound
    /\ query_response = NoResponse

\* A request arrives: validation, then Retriever(top_k=...).
QueryBegin(query, top_k) ==
    /\ UNCHANGED notQuery
    /\ query_pc = "idle"
    /\ IF ValidRequest(query, top_k)
       THEN /\ query_req' = [query |-> query, top_k |-> top_k,
                             retriever_top_k |-> TopKOr(top_k, settings.top_k)]
            /\ query_pc' = "sources"
            /\ query_response' = query_response
       ELSE /\ query_req' = [query |-> query, top_k |-> top_k, retriever_top_k |-> 0]
            /\ query_pc' = "done"
            /\ query_response' = [NoResponse EXCEPT !.status = 422]
    /\ UNCHANGED <<query_calls, query_found, storeVars>>

\* await retriever.retrieve_with_sources(query, top_k=request.top_k)
QuerySources(ok) ==
    /\ UNCHANGED notQuery
    /\ query_pc = "sources"
    /\ CanUseClient
    /\ LET e == EnsureClient(qdrant_client, clients_made)
       IN qdrant_client' = e.client /\ clients_made' = e.made
    /\ LET k == EffectiveTopK(query_req.top_k, query_req.retriever_top_k)
           rs == Retrieve(collection, query_req.query.vec, k, settings.score_threshold)
       IN /\ query_calls' = Append(query_calls, [op |-> "retrieve_with_sources", top_k |-> k])
          /\ IF ok
             THEN /\ query_found' = [query_found EXCEPT !.sourced = rs,
                                        !.context = FormatContext(rs),
                                        !.sources = SourcesOf(rs)]
                  /\ query_pc' = "results"
                  /\ query_response' = query_response
             ELSE /\ query_found' = query_found
                  /\ query_pc' = "done"
                  /\ query_response' = [NoResponse EXCEPT !.status = 500]
    /\ UNCHANGED <<query_req, settings, collection, client_closes, client_upserts,
                   close_calls, upsert_call>>

\* await retriever.retrieve(query, top_k=request.top_k), then the response.
QueryResults(ok) ==
    /\ UNCHANGED notQuery
    /\ query_pc = "results"
    /\ LET k == EffectiveTopK(query_req.top_k, query_req.retriever_top_k)
           rs == Retrieve(collection, query_req.query.vec, k, settings.score_threshold)
       IN /\ query_calls' = Append(query_calls, [op |-> "retrieve", top_k |-> k])
          /\ IF ok
             THEN /\ query_found' = [query_found EXCEPT !.results = rs]
                  /\ query_response' = [status |-> 200, results |-> ToRagResults(rs),
                                        context |-> query_found.context]
             ELSE /\ query_found' = query_found
                  /\ query_response' = [NoResponse EXCEPT !.status = 500]
    /\ query_pc' = "done"
    /\ UNCHANGED <<query_req, storeVars>>

\* ------------------------------------------------ api/main.py lifespan
\* get_qdrant_service() hands out one process-wide service instance.
GetQdrantService == 1

CheckOutcomes == {"exists", "absent", "raise"}

NoLifespan == [pc |-> "init", check |-> "none", service |-> 0, closed |-> <<>>]

InitLifespan == lifespan = NoLifespan

\* Startup up to the yield: whatever collection_exists does, it is logged.
LifespanStarted(ls, outcome) ==
    [ls EXCEPT !.pc = "serving", !.check = outcome, !.service = GetQdrantService]

LifespanStopped_NoClose(ls) ==
    [ls EXCEPT !.pc = "stopped"]

\* Shutdown: close() on the instance bound at startup.
LifespanStopped(ls) ==
    [ls EXCEPT !.pc = "stopped", !.closed = Append(ls.closed, ls.service)]

LifespanStartup(outcome) ==
    /\ UNCHANGED notLifespan
    /\ lifespan.pc = "init"
    /\ outcome = "exists" => collection.exists
    /\ outcome = "absent" => ~collection.exists
    /\ IF outcome = "raise"
       THEN UNCHANGED <<qdrant_client, clients_made>>
       ELSE LET e == EnsureClient(qdrant_client, clients_made)
            IN qdrant_client' = e.client /\ clients_made' = e.made
    /\ lifespan' = LifespanStarted(lifespan, outcome)
    /\ UNCHANGED <<settings, collection, client_closes, client_upserts,
                   close_calls, upsert_call>>

LifespanShutdown ==
    /\ UNCHANGED notLifespan
    /\ lifespan.pc = "serving"
    /\ lifespan' = LifespanStopped(lifespan)
    /\ close_calls' = close_calls + Len(lifespan'.closed)
    /\ LET r == CloseService(qdrant_client, client_closes)
       IN IF lifespan'.closed # <<>>
          THEN qdrant_client' = r.client /\ client_closes' = r.closes
          ELSE UNCHANGED <<qdrant_client, client_closes>>
    /\ UNCHANGED <<settings, collection, clients_made, client_upserts, upsert_call>>

\* Requests are served between startup and shutdown.
ServeStats(ok) ==
    /\ lifespan.pc = "serving"
    /\ UNCHANGED lifespanVars
    /\ ApiGetRagStats(ok)

\* ------------------------- voice_agent.py user_input_transcribed events
Tasks == 1..MaxEvents

\* A transcript is a sequence of blanks and words; at most one word here.
Blank == " "
Transcripts ==
    {<<>>, <<Blank>>, <<"q1">>, <<Blank, "q2">>, <<"q1", Blank>>,
     <<Blank, "q2", Blank>>}

RECURSIVE LStrip(_)
LStrip(t) == IF t # <<>> /\ Head(t) = Blank THEN LStrip(Tail(t)) ELSE t

RECURSIVE RStrip(_)
RStrip(t) ==
    IF t # <<>> /\ t[Len(t)] = Blank THEN RStrip(SubSeq(t, 1, Len(t) - 1)) ELSE t

\* str.strip()
Strip(t) == RStrip(LStrip(t))

\* The text of a stripped one-word transcript.
TextOf(t) == IF t = <<>> THEN "" ELSE t[1]

NoTask == [pc |-> "none", is_final |-> FALSE, transcript |-> <<>>,
           calls |-> 0, slot |-> 0, enabled |-> FALSE]

InitEvents == etask = [t \in Tasks |-> NoTask]

ShouldRetrieve_Interim(is_final, transcript, enabled) ==
    Strip(transcript) # <<>> /\ enabled

\* _handle_user_input: interim and blank transcripts return early; the
\* retrieval is made only while agent.enable_rag holds.
ShouldRetrieve(is_final, transcript, enabled) ==
    is_final /\ Strip(transcript) # <<>> /\ enabled

\* on_user_input_transcribed: create_task and return.
OnUserInputTranscribed(t, is_final, transcript) ==
    /\ UNCHANGED notEvents
    /\ UNCHANGED agentVars
    /\ etask[t].pc = "none"
    /\ (IF t = 1 THEN TRUE ELSE etask[t - 1].pc # "none")
    /\ etask' = [etask EXCEPT ![t] =
                   [NoTask EXCEPT !.pc = "spawned", !.is_final = is_final,
                                  !.transcript = transcript]]

\* The spawned task runs (tasks start in the order they were created) up to
\* its return or to the await inside retrieve_context.
HandleUserInput(t, a, constructOk) ==
    /\ UNCHANGED notEvents
    /\ etask[t].pc = "spawned"
    /\ (IF t = 1 THEN TRUE ELSE etask[t - 1].pc # "spawned")
    /\ IF ShouldRetrieve(etask[t].is_final, etask[t].transcript, enable_rag)
       THEN /\ RetrieveContextCall(a, TextOf(Strip(etask[t].transcript)), constructOk)
            /\ etask' = [etask EXCEPT ![t] =
                           [@ EXCEPT !.pc = "awaiting", !.calls = @ + 1, !.slot = a,
                                     !.enabled = enable_rag]]
       ELSE /\ UNCHANGED agentVars
            /\ etask' = [etask EXCEPT ![t] =
                           [@ EXCEPT !.pc = "done", !.enabled = enable_rag]]

\* retrieve_context returned to the task, which logs and ends.
HandleUserInputEnds(t) ==
    /\ UNCHANGED notEvents
    /\ UNCHANGED agentVars
    /\ etask[t].pc = "awaiting"
    /\ acall[etask[t].slot].pc = "done"
    /\ etask' = [etask EXCEPT ![t] = [@ EXCEPT !.pc = "done"]]

EventStep ==
    \/ \E t \in Tasks, f \in BOOLEAN, tr \in Transcripts :
          OnUserInputTranscribed(t, f, tr)
    \/ \E t \in Tasks, a \in AgentCalls, ok \in BOOLEAN : HandleUserInput(t, a, ok)
    \/ \E t \in Tasks : HandleUserInputEnds(t)

\* ------------------------------- voara_agent after the context reset
NoHandler == [pc |-> "starting", registered |-> FALSE, close_event |-> FALSE,
              closed |-> FALSE]

InitHandler == handler = NoHandler

\* After generate_reply: close_event is created unset and on_close is
\* registered with the session.
OnGreetingDone(h) ==
    [h EXCEPT !.pc = "waiting", !.registered = TRUE, !.close_event = FALSE]

\* The session emits "close": only a registered on_close sets the event.
OnSessionClose(h) ==
    [h EXCEPT !.closed = TRUE, !.close_event = (h.close_event \/ h.registered)]

\* await session.start(...) returned.
HandlerSessionStarted ==
    /\ UNCHANGED notHandler
    /\ session_pc[1] = "active"
    /\ handler.pc = "starting"
    /\ handler' = [handler EXCEPT !.pc = "greeting"]

\* await session.generate_reply(...) returned, or raised on a closed session.
HandlerGreetingDone(ok) ==
    /\ UNCHANGED notHandler
    /\ handler.pc = "greeting"
    /\ ~ok => handler.closed
    /\ handler' = IF ok THEN OnGreetingDone(handler)
                  ELSE [handler EXCEPT !.pc = "raised"]

\* The agent session closes (participant left, room deleted, error).
SessionEmitsClose ==
    /\ UNCHANGED notHandler
    /\ handler.pc \in {"greeting", "waiting"}
    /\ ~handler.closed
    /\ handler' = OnSessionClose(handler)

\* await close_event.wait() returned: the handler logs and returns.
HandlerReturns ==
    /\ UNCHANGED notHandler
    /\ handler.pc = "waiting"
    /\ handler.close_event
    /\ handler' = [handler EXCEPT !.pc = "returned"]

\* The steps that are the handler's own.
HandlerStep ==
    \/ HandlerSessionStarted
    \/ \E ok \in BOOLEAN : HandlerGreetingDone(ok)
    \/ HandlerReturns

\* ------------------------------------------------------- specifications
StartFiles == {NoFile, Written(EmptyRecord), Written(OldRecord)}

\* The agent process's tool, the session handlers and the context endpoint.
Quiet == InitLifespan /\ InitEvents /\ InitHandler

AtRest ==
    /\ InitStore({NoCollection}, {DefaultSettings})
    /\ InitStats
    /\ InitQuery
    /\ Quiet

InitToolsSpec == InitTools(StartFiles) /\ InitAgent({TRUE}) /\ AtRest
NextTools == ToolsStep(Calls, Sessions)
SpecTools == InitToolsSpec /\ [][NextTools]_vars

\* Overlapping search_knowledge_base calls of one session.
NextSearch == SearchStep(Calls, {1}) \/ SessionStep({1})
SpecSearch == InitToolsSpec /\ [][NextSearch]_vars

\* One VoaraAgent under overlapping retrieve_context calls.
InitAgentSpec == InitTools({NoFile}) /\ InitAgent(BOOLEAN) /\ AtRest
NextAgent == AgentStep(AgentCalls)
SpecAgent == InitAgentSpec /\ [][NextAgent]_vars

\* One tool invocation and one agent invocation side by side.
InitRetrieval == InitTools(StartFiles) /\ InitAgent(BOOLEAN) /\ AtRest
NextRetrieval == ToolsStep({1}, {1}) \/ AgentStep({1})
SpecRetrieval == InitRetrieval /\ [][NextRetrieval]_vars

\* GET /rag/stats against a collection of any content, and the service's
\* client as it is created on use and closed.
InitStoreSpec ==
    /\ InitTools({NoFile}) /\ InitAgent({TRUE})
    /\ InitStore(Collections, {DefaultSettings}) /\ InitStats /\ InitQuery /\ Quiet
NextStats ==
    \/ \E ok \in BOOLEAN : ApiGetRagStats(ok)
    \/ QdrantCreateCollection
    \/ QdrantClose
SpecStats == InitStoreSpec /\ [][NextStats]_vars

\* Writes to the collection.
NextStore ==
    \/ \E b \in Batches, ok \in BOOLEAN : QdrantUpsert(b, ok)
    \/ QdrantCreateCollection
SpecStore == InitStoreSpec /\ [][NextStore]_vars

\* One POST /rag/query against a collection of any content.
InitQuerySpec ==
    /\ InitTools({NoFile}) /\ InitAgent({TRUE})
    /\ InitStore(Collections, Settings) /\ InitStats /\ InitQuery /\ Quiet
NextQuery ==
    \/ \E q \in ApiQueries, k \in TopKInputs : QueryBegin(q, k)
    \/ \E ok \in BOOLEAN : QuerySources(ok)
    \/ \E ok \in BOOLEAN : QueryResults(ok)
SpecQuery == InitQuerySpec /\ [][NextQuery]_vars

\* The API process from startup to shutdown, serving GET /rag/stats.
NextLifespan ==
    \/ \E o \in CheckOutcomes : LifespanStartup(o)
    \/ \E ok \in BOOLEAN : ServeStats(ok)
    \/ LifespanShutdown
SpecLifespan == InitStoreSpec /\ [][NextLifespan]_vars

\* One session's searches and resets with GET /rag/context reads among them.
NextContext == ToolsStep(Calls, {1})
SpecContext == InitToolsSpec /\ [][NextContext]_vars

\* One VoaraAgent driven by the transcript events of its session.
NextEvents ==
    \/ EventStep
    \/ \E a \in AgentCalls : RetrieveContextRaises(a)
    \/ \E a \in AgentCalls, r \in AgentContexts : RetrieveContextReturns(a, r)
SpecEvents == InitAgentSpec /\ [][NextEvents]_vars

\* One voara_agent handler from its context reset to its return, with the
\* tool calls of its session and the session's close event.
NextHandler ==
    \/ \E ok \in BOOLEAN : SessionStart(1, ok)
    \/ \E ok \in BOOLEAN : SessionClearFinish(1, ok)
    \/ HandlerStep
    \/ SessionEmitsClose
    \/ SearchStep(Calls, {1})
SpecHandler == InitToolsSpec /\ [][NextHandler]_vars

\* One POST /rag/query with upserts of an ingestion run going on beside it.
NextQueryStore ==
    \/ NextQuery
    \/ \E b \in Batches, ok \in BOOLEAN : QdrantUpsert(b, ok)
InitQueryStore ==
    /\ InitTools({NoFile}) /\ InitAgent({TRUE})
    /\ InitStore({NoCollection, [exists |-> TRUE, points |-> <<>>]}, {DefaultSettings})
    /\ InitStats /\ InitQuery /\ Quiet
SpecQueryStore == InitQueryStore /\ [][NextQueryStore]_vars

\* ------------------------------------------------------------- claims
InFlight == \E c \in Calls : call[c].pc \in {"retrieving", "writing"}
Clearing == \E s \in Sessions : session_pc[s] = "clearing"

\* C1: search_knowledge_base never raises: every finished call has returned a
\* string, which is the retrieval result when that result is non-empty and
\* one of the fixed fallback sentences otherwise; a call that is waiting for
\* a collaborator can always complete.
C1_SearchNeverRaises ==
    \A c \in Calls :
        /\ ~call[c].raised
        /\ call[c].pc = "done" =>
             /\ call[c].kind \in {"unavailable", "raise", "ok"}
             /\ (call[c].kind = "ok" /\ call[c].result # "") =>
                    call[c].ret = call[c].result
             /\ ~(call[c].kind = "ok" /\ call[c].result # "") =>
                    call[c].ret \in Fallbacks
        /\ call[c].pc = "retrieving" =>
             ENABLED (SearchRetrieveRaises(c) \/ SearchRetrieveEmpty(c))
        /\ call[c].pc = "writing" =>
             ENABLED (\E ok \in BOOLEAN : SearchWriteFinish(c, ok))

\* A call whose context file write failed returned its result, next to a call
\* whose retrieval raised.
C1_Witness ==
    \E c, d \in Calls :
        /\ call[c].pc = "done" /\ call[c].write = "failed"
        /\ call[c].ret = call[c].result /\ call[c].ret # ""
        /\ call[d].pc = "done" /\ call[d].kind = "raise"

\* C2: after a search with query q has obtained a retrieval result and
\* returned, and before any later search or session reset, a read of the
\* last-context endpoint returns query q and the context recorded for q.
C2_ReadReturnsLastSearch ==
    (h_last.valid /\ ~InFlight /\ ~Clearing) =>
        LET r == GetCurrentContext(context_file, TRUE)
        IN /\ r.query = h_last.query
           /\ r.context = h_last.context

\* C3: once the handler of the newest session has passed its clearing step,
\* a read of the last-context endpoint returns the empty record until a
\* search made in that session stores a result.
NewestSession(s) ==
    /\ session_pc[s] # "idle"
    /\ \A t \in Sessions : t > s => session_pc[t] = "idle"

C3_ClearedAtSessionStart ==
    \A s \in Sessions, ok \in BOOLEAN :
        (NewestSession(s) /\ session_pc[s] \in {"active", "closed"}
           /\ ~h_stored[s]) =>
            LET r == GetCurrentContext(context_file, ok)
            IN ~r.has_context /\ r.query = "" /\ r.context = ""

\* C4: a retrieval with zero matches is "no relevant knowledge found":
\* search_knowledge_base returns the no-information sentence and
\* VoaraAgent.retrieve_context returns the empty string, neither raises.
C4_EmptyIsNotAnError ==
    /\ \A c \in Calls :
          (call[c].pc = "done" /\ call[c].kind = "ok" /\ call[c].result = "") =>
              call[c].ret = FallbackNoInfo /\ ~call[c].raised
    /\ \A a \in AgentCalls :
          (acall[a].pc = "done" /\ acall[a].kind = "ok" /\ acall[a].result = "") =>
              acall[a].ret = "" /\ ~acall[a].raised

C4_Witness ==
    /\ call[1].pc = "done" /\ call[1].kind = "ok" /\ call[1].result = ""
    /\ acall[1].pc = "done" /\ acall[1].kind = "ok" /\ acall[1].result = ""

\* C5: VoaraAgent.retrieve_context never raises; it returns "" when RAG is
\* disabled (without touching the retriever), when the retriever cannot be
\* initialised and when the retriever raises; otherwise it returns exactly
\* the retriever's context string.
C5_AgentDegradesGracefully ==
    \A a \in AgentCalls :
        /\ ~acall[a].raised
        /\ acall[a].pc = "done" =>
             /\ acall[a].kind \in {"disabled", "noretriever", "raise", "ok"}
             /\ acall[a].kind = "disabled" => acall[a].ret = "" /\ ~acall[a].touched
             /\ acall[a].kind \in {"noretriever", "raise"} => acall[a].ret = ""
             /\ acall[a].kind = "ok" => acall[a].ret = acall[a].result
        /\ acall[a].pc = "awaiting" =>
             ENABLED (RetrieveContextRaises(a))

\* One call's retrieval raised and another returned the retriever's context.
C5_Witness ==
    \E a, b \in AgentCalls :
        /\ acall[a].pc = "done" /\ acall[a].kind = "raise" /\ acall[a].ret = ""
        /\ acall[b].pc = "done" /\ acall[b].kind = "ok" /\ acall[b].ret # ""

\* C6: the stats endpoint reports collection existence faithfully: no
\* collection info gives exists = false, points_count = 0 and status
\* "not_found" as a normal response, present info gives exists = true with
\* the store's points_count, and only a backend error gives HTTP 500.
C6_StatsReportExistence ==
    /\ stats_response.seen = "absent" =>
          /\ stats_response.http = 200
          /\ ~stats_response.exists
          /\ stats_response.points_count = 0
          /\ stats_response.status = "not_found"
    /\ stats_response.seen = "present" =>
          /\ stats_response.http = 200
          /\ stats_response.exists
          /\ stats_response.points_count = stats_response.seen_count
    /\ stats_response.http = 500 <=> stats_response.seen = "error"

\* The stats endpoint answered for a missing collection.
C6_Witness ==
    /\ stats_response.seen = "absent"
    /\ stats_response.http = 200
    /\ stats_response.status = "not_found"

\* C7: a request whose query length is outside 1..1000, or whose top_k is
\* given and outside 1..10, is rejected without any retrieval call; for an
\* accepted request both retrieval calls use the request's top_k when given
\* and the configured default when absent.
C7_QueryRanges ==
    query_pc # "idle" =>
        LET len == query_req.query.len
            k == query_req.top_k
            inRange == /\ len >= 1 /\ len <= 1000
                       /\ (k = NoTopK \/ (k >= 1 /\ k <= 10))
        IN /\ ~inRange => /\ query_calls = <<>>
                          /\ query_pc = "done"
                          /\ query_response.status = 422
           /\ inRange =>
                \A n \in DOMAIN query_calls :
                    query_calls[n].top_k = IF k # NoTopK THEN k ELSE settings.top_k
           /\ query_response.status = 200 =>
                /\ Len(query_calls) = 2
                /\ query_calls[1].op = "retrieve_with_sources"
                /\ query_calls[2].op = "retrieve"

\* A request without top_k was answered after two retrievals with the default.
C7_Witness ==
    /\ query_pc = "done" /\ query_response.status = 200
    /\ query_req.top_k = NoTopK /\ query_req.query.len = 1000
    /\ Len(query_calls) = 2
    /\ query_calls[1].top_k = 3 /\ query_calls[2].top_k = 3

IsOrdered(rs) == \A n \in 1..(Len(rs) - 1) : rs[n].score >= rs[n + 1].score

\* C8: Retriever.retrieve returns at most top_k results, in non-increasing
\* score order, each with score >= score_threshold, for any collection
\* content, query, top_k and threshold; the results list of the query
\* endpoint's response has the same length and order.
C8_ResultsOrdered ==
    /\ \A qvec \in Vectors, k \in {1, 2, 3}, t \in Vectors :
          LET rs == Retrieve(collection, qvec, k, t)
          IN /\ Len(rs) <= k
             /\ IsOrdered(rs)
             /\ \A n \in DOMAIN rs : rs[n].score >= t
    /\ query_response.status = 200 =>
          LET rs == query_found.results
              out == query_response.results
          IN /\ Len(rs) <= EffectiveTopK(query_req.top_k, query_req.retriever_top_k)
             /\ IsOrdered(rs) /\ IsOrdered(out)
             /\ \A n \in DOMAIN rs : rs[n].score >= settings.score_threshold
             /\ Len(out) = Len(rs)
             /\ \A n \in DOMAIN rs :
                   out[n].text = rs[n].text /\ out[n].score = rs[n].score

\* The response lists two results of different scores.
C8_Witness ==
    /\ query_response.status = 200
    /\ Len(query_response.results) = 2
    /\ query_response.results[1].score > query_response.results[2].score

\* C9: upsert is idempotent per id: a successful upsert of the batch the
\* previous successful call wrote leaves the collection as it was (same
\* points, same point count), no upsert leaves two points with one id, and
\* each successful call makes exactly one write to the backing client.
C9_UpsertIdempotent ==
    [][upsert_call'.n = upsert_call.n + 1 =>
          /\ DistinctIds(collection'.points)
          /\ upsert_call'.ret => client_upserts' = client_upserts + 1
          /\ (upsert_call'.ret /\ upsert_call.ret
                /\ upsert_call'.batch = upsert_call.batch) =>
                 /\ collection' = collection
                 /\ Len(collection'.points) = Len(collection.points)]_vars

\* A batch of two points was written twice in a row.
C9_Witness ==
    /\ upsert_call.ret /\ upsert_call.repeat
    /\ Len(upsert_call.batch) = 2
    /\ Len(collection.points) = 2

\* C10: close() is idempotent: every client the service no longer holds was
\* closed exactly once, the client it holds was never closed, and a close
\* call on a service without a client closes nothing.
C10_CloseIdempotent ==
    \A c \in Clients :
        /\ client_closes[c] <= 1
        /\ (c <= clients_made /\ c # qdrant_client) => client_closes[c] = 1
        /\ c = qdrant_client => client_closes[c] = 0
        /\ c > clients_made => client_closes[c] = 0

\* Close was called three times on a service that only ever had one client.
C10_Witness ==
    /\ close_calls = 3
    /\ clients_made = 1
    /\ client_closes[1] = 1
    /\ qdrant_client = 0

\* C11: in every run of the API lifespan, startup can complete whatever the
\* connectivity check does (it found the collection, found none, or raised),
\* no close() is made before shutdown, and after shutdown close() has been
\* called exactly once, on the service instance obtained at startup, which
\* then holds no client.
C11_LifespanClosesOnce ==
    /\ lifespan.pc = "init" =>
          /\ ENABLED LifespanStartup("raise")
          /\ ENABLED LifespanStartup(IF collection.exists THEN "exists" ELSE "absent")
    /\ lifespan.pc \in {"init", "serving"} =>
          lifespan.closed = <<>> /\ close_calls = 0
    /\ lifespan.pc # "init" => lifespan.service = GetQdrantService
    /\ lifespan.pc = "stopped" =>
          /\ lifespan.closed = <<lifespan.service>>
          /\ close_calls = 1
          /\ qdrant_client = 0

C11_Witness ==
    /\ lifespan.pc = "stopped"
    /\ lifespan.check = "raise"
    /\ ~collection.exists
    /\ clients_made = 1
    /\ client_closes[1] = 1

\* The writes of the context file that are between open(..., "w") and the
\* end of json.dump, and the record each of them is writing.
WritesInProgress ==
    {ResultRecord(call[c].query, call[c].result, call[c].stamp) :
        c \in {d \in Calls : call[d].pc = "writing"}}
    \cup {EmptyRecord : s \in {t \in Sessions : session_pc[t] = "clearing"}}

\* C12: a GET /rag/context read whose own file I/O succeeds, taken while a
\* write of the context file is in progress, returns the complete record the
\* file held before the write (or the empty record of a missing file) or the
\* complete record being written.
C12_ReadNeverPartial ==
    [][(ApiGetContext(TRUE) /\ WritesInProgress # {}) =>
          \/ context_response' = EmptyResponse(FALSE)
          \/ context_response' = GetCurrentContext(Written(context_file.data), TRUE)
          \/ \E rec \in WritesInProgress :
                context_response' = GetCurrentContext(Written(rec), TRUE)]_vars

\* C13: the tool's retriever is a memoized lazy singleton. At most one
\* Retriever is ever constructed successfully and the global holds it from
\* then on; every call that got past _get_retriever runs on it; a call
\* attempts a construction exactly when it finds the global None, so every
\* failed attempt is one call answered "unavailable" and the next call tries
\* again.
C13_RetrieverMemoized ==
    /\ tools_constructs.built <= 1
    /\ (tools_retriever = "Retriever") <=> (tools_constructs.built = 1)
    /\ \A c \in Calls :
          (call[c].pc \in {"retrieving", "writing"} \/ call[c].kind \in {"ok", "raise"})
             => tools_retriever = "Retriever"
    /\ tools_constructs.attempts =
          tools_constructs.built
             + Cardinality({c \in Calls : call[c].kind = "unavailable"})

C13_Witness ==
    /\ call[1].kind = "unavailable"
    /\ call[2].pc = "retrieving"
    /\ tools_constructs = [attempts |-> 2, built |-> 1]

\* The four fields of the empty record.
IsEmptyRecord(r) ==
    r.query = "" /\ r.context = "" /\ r.timestamp = NullTimestamp /\ ~r.has_context

\* C14: every response of GET /rag/context is well formed. has_context is
\* true exactly when the returned context is non-empty, in the response last
\* served and in the one a read would get now; and a read of a missing file,
\* of a file that cannot be opened, or of one that does not parse returns the
\* empty record as a response.
C14_ContextResponseWellFormed ==
    /\ context_response.has_context <=> (context_response.context # "")
    /\ \A readOk \in BOOLEAN :
          LET r == GetCurrentContext(context_file, readOk)
          IN /\ r.has_context <=> (r.context # "")
             /\ (context_file.state \in {"absent", "truncated"} \/ ~readOk)
                   => IsEmptyRecord(r)
             /\ ENABLED ApiGetContext(readOk)

C14_Witness ==
    /\ context_file.state = "truncated"
    /\ \E c \in Calls : call[c].pc = "writing"
    /\ context_response = EmptyResponse(TRUE)

\* C15: a failed search leaves the last-context record untouched. The steps
\* of search_knowledge_base that a failing call consists of (its entry up to
\* the "unavailable" return or to the await of the retrieval, and the return
\* from the except branch after the retrieval raised) change neither the
\* in-process record nor the context file.
C15_FailedSearchLeavesRecord ==
    [][(\E c \in Calls :
           \/ call[c].pc = "idle" /\ call'[c].pc # "idle"
           \/ /\ call[c].pc # "done" /\ call'[c].pc = "done"
              /\ call'[c].ret \in {FallbackUnavailable, FallbackIssue})
          => /\ last_rag_context' = last_rag_context
             /\ context_file' = context_file]_vars

C15_Witness ==
    \E c, d \in Calls :
       /\ call[c].pc = "done" /\ call[c].ret = FallbackIssue
       /\ call[d].pc = "done" /\ call[d].write = "ok"
       /\ last_rag_context = ResultRecord(call[d].query, call[d].result, call[d].stamp)
       /\ context_file = Written(last_rag_context)

\* C16: per-utterance retrieval is triggered only by final, non-blank
\* transcripts. The callback only spawns the event's task (no retrieval has
\* been made for an event whose task has not run); a task that has run has
\* called retrieve_context once if its event is final, its stripped
\* transcript is non-empty and it found enable_rag true, and not at all
\* otherwise; the call carries the stripped transcript, and the agent has
\* received no other calls.
C16_RetrievalOnlyForFinal ==
    /\ \A t \in Tasks :
          /\ etask[t].pc \in {"none", "spawned"} => etask[t].calls = 0
          /\ etask[t].pc \in {"awaiting", "done"} =>
                etask[t].calls =
                   IF /\ etask[t].is_final
                      /\ Strip(etask[t].transcript) # <<>>
                      /\ etask[t].enabled
                   THEN 1 ELSE 0
          /\ etask[t].calls = 1 =>
                /\ acall[etask[t].slot].pc # "idle"
                /\ acall[etask[t].slot].query = TextOf(Strip(etask[t].transcript))
    /\ Cardinality({a \in AgentCalls : acall[a].pc # "idle"})
          = Cardinality({t \in Tasks : etask[t].calls = 1})

C16_Witness ==
    /\ etask[1].pc = "done" /\ ~etask[1].is_final
    /\ etask[1].transcript = <<"q1">> /\ etask[1].calls = 0
    /\ etask[2].pc = "done" /\ etask[2].is_final
    /\ etask[2].transcript = <<Blank, "q2", Blank>> /\ etask[2].calls = 1
    /\ acall[1].query = "q2" /\ acall[2].pc = "idle"

\* The retrieve_context calls that have returned a non-empty context. Calls
\* take their slots in the order the tasks start, which is the order the
\* utterances were transcribed in.
ReturnedContext == {a \in AgentCalls : acall[a].pc = "done" /\ acall[a].ret # ""}

\* C17: the agent's (last_query, last_context) pair is consistent and
\* describes the latest utterance with context: while no retrieval has
\* returned a non-empty context both fields are empty, and afterwards they
\* are the query and the non-empty context of the most recently transcribed
\* utterance among those whose retrieval returned one.
C17_PairIsLatestUtterance ==
    IF ReturnedContext = {}
    THEN last_query = "" /\ last_context = "" /\ last_owner = 0
    ELSE LET latest == CHOOSE a \in ReturnedContext :
                          \A b \in ReturnedContext : b <= a
         IN /\ last_owner = latest
            /\ last_query = acall[latest].query
            /\ last_context = acall[latest].ret

\* C18: the session handler terminates when the session closes. Once the
\* session has emitted its close event (at any point after session.start
\* returned, the greeting included), the handler has returned or ended, or
\* it has a step left to take: it is never left waiting with nothing to wake
\* it.
C18_HandlerReturnsAfterClose ==
    handler.closed =>
       \/ handler.pc \in {"returned", "raised"}
       \/ ENABLED HandlerStep

C20_DisabledForGood ==
    [][/\ agent_constructs' <= 1
       /\ (\E a \in AgentCalls : acall'[a].kind = "noretriever") =>
             /\ ~enable_rag'
             /\ agent_retriever' = "None"
             /\ agent_constructs' = 1
             /\ Cardinality({a \in AgentCalls : acall'[a].kind = "noretriever"}) = 1
             /\ \A a \in AgentCalls :
                   acall'[a].pc # "idle" =>
                      /\ acall'[a].pc = "done"
                      /\ acall'[a].kind \in {"noretriever", "disabled"}
                      /\ acall'[a].ret = ""
       /\ agent_retriever' = "Retriever" => agent_constructs' = 1 /\ enable_rag'
       /\ ~enable_rag => ~enable_rag'
       /\ agent_retriever = "Retriever" =>
             agent_retriever' = "Retriever" /\ agent_constructs' = agent_constructs
      ]_vars

C20_Witness ==
    /\ acall[1].kind = "noretriever"
    /\ acall[2].kind = "disabled" /\ acall[2].ret = ""
    /\ acall[3].kind = "disabled"
    /\ agent_constructs = 1
    /\ ~enable_rag

====
